---------------------------- MODULE Spec2Model ----------------------------
(***************************************************************************)
(* Model of the trade calculator, src/src/lib/calculateTrade.ts            *)
(* (calculateTrade3TP, the revision with position sizing, lines 1-276;     *)
(* lines 279-408 of the file hold an earlier revision without sizing).     *)
(* A call is Init (or Call) drawing the argument record and then Return or *)
(* Throw, the call's outcome; Spec is one call, CallsSpec a sequence of    *)
(* calls by the function's callers.  calls is the history of the calls     *)
(* completed so far, each with its arguments and its outcome.              *)
(*                                                                         *)
(* PageSpec is the page src/src/routes/+page.svelte around the function:   *)
(* page holds the component's variables, and in PageSpec params, pc and    *)
(* result are the latest call the page made.  PageSizingSpec and           *)
(* PageLimitsSpec are the same page with other inputs edited, and CopySpec *)
(* the page with its copy buttons.                                         *)
(*                                                                         *)
(* Part001Spec is one call of the aggressive/equal/moderate revision of    *)
(* the function, src/unnamed/part_001.                                     *)
(*                                                                         *)
(* Numbers.  The code computes in IEEE doubles and formats with toFixed.   *)
(* The model computes in exact rationals <<n, d>> (d > 0, lowest terms)    *)
(* and models toFixed(k) as rounding to k decimals, half away from zero;   *)
(* a formatted string "184.29" is the pair <<18429, 100>> of its digits,   *)
(* read as an integer of last-digit units, and its scale 10^k.  Doubles     *)
(* differ from the rationals by relative errors near                       *)
(* 1e-16, which can matter only where a value sits exactly on a rounding   *)
(* tie.  The non-finite doubles are the pairs with denominator 0:          *)
(* <<1, 0>> is Infinity, <<-1, 0>> is -Infinity and <<0, 0>> is NaN, and   *)
(* the strings "Infinity", "-Infinity" and "NaN" that toFixed makes of     *)
(* them are the same pairs.                                                *)
(* The model has one zero: it does not tell -0 from 0.                     *)
(***************************************************************************)
EXTENDS Integers, Sequences, FiniteSets, TLC

VARIABLES params, pc, result, calls, page

vars == <<params, pc, result, calls, page>>

-----------------------------------------------------------------------------
(* Exact rational arithmetic standing for the code's number arithmetic.    *)

Abs(x) == IF x < 0 THEN -x ELSE x

RECURSIVE GCD(_, _)
GCD(a, b) == IF b = 0 THEN a ELSE GCD(b, a % b)

Rat(n, d) == LET g == GCD(Abs(n), d) IN <<n \div g, d \div g>>

Num(n) == <<n, 1>>

Zero == Num(0)

One == Num(1)

NaN == <<0, 0>>

Infinity == <<1, 0>>

IsNaN(x) == x = NaN

IsFinite(x) == x[2] # 0

Sign(n) == IF n < 0 THEN -1 ELSE IF n > 0 THEN 1 ELSE 0

RNeg(x) == <<-x[1], x[2]>>

(* x + y; Infinity + -Infinity is NaN.                                     *)
RAdd(x, y) ==
    IF x[2] = 0 \/ y[2] = 0 THEN
        IF IsNaN(x) \/ IsNaN(y) THEN NaN
        ELSE IF x[2] = 0 /\ y[2] = 0 THEN (IF x = y THEN x ELSE NaN)
        ELSE IF x[2] = 0 THEN x ELSE y
    ELSE
        LET g == GCD(x[2], y[2])
        IN  Rat(x[1] * (y[2] \div g) + y[1] * (x[2] \div g), (x[2] \div g) * y[2])

RSub(x, y) == RAdd(x, RNeg(y))

(* x * y; 0 * Infinity is NaN.                                             *)
RMul(x, y) ==
    IF x[2] = 0 \/ y[2] = 0 THEN
        IF x[1] = 0 \/ y[1] = 0 THEN NaN ELSE <<Sign(x[1]) * Sign(y[1]), 0>>
    ELSE IF x[1] = 0 \/ y[1] = 0 THEN Zero
    ELSE LET g1 == GCD(Abs(x[1]), y[2])
             g2 == GCD(Abs(y[1]), x[2])
         IN  <<(x[1] \div g1) * (y[1] \div g2), (x[2] \div g2) * (y[2] \div g1)>>

(* 1 / x; 1 / 0 is Infinity and 1 / Infinity is 0.                         *)
RInv(x) ==
    IF x[2] = 0 THEN (IF IsNaN(x) THEN NaN ELSE Zero)
    ELSE IF x[1] = 0 THEN Infinity
    ELSE IF x[1] > 0 THEN <<x[2], x[1]>> ELSE <<-x[2], -x[1]>>

RDiv(x, y) == RMul(x, RInv(y))

(* x < y and x <= y; every comparison with NaN is false.                   *)
RLess(x, y) == RSub(x, y)[1] < 0

RLeq(x, y) == ~IsNaN(x) /\ ~IsNaN(y) /\ RSub(x, y)[1] <= 0

(* Math.max and Math.min; NaN if either argument is NaN.                   *)
RMax(x, y) == IF IsNaN(x) \/ IsNaN(y) THEN NaN ELSE IF RLess(x, y) THEN y ELSE x

RMin(x, y) == IF IsNaN(x) \/ IsNaN(y) THEN NaN ELSE IF RLess(y, x) THEN y ELSE x

RECURSIVE RSum(_)
RSum(s) == IF s = <<>> THEN Zero ELSE RAdd(Head(s), RSum(Tail(s)))

(* Number.prototype.toFixed(k): the decimal digits of |x| by long division,*)
(* rounded to the nearest unit of the k-th decimal, the sign put back.     *)
(* ScaledFloor(q, r, d, k) is the pair <<floor(v * 10^k), remainder>> of   *)
(* v = q + r/d; a factor 10 of d is cancelled rather than multiplied out.  *)
RECURSIVE ScaledFloor(_, _, _, _)
ScaledFloor(q, r, d, k) ==
    IF k = 0 THEN <<q, r, d>>
    ELSE IF d % 10 = 0
         THEN ScaledFloor(q * 10 + (r \div (d \div 10)), r % (d \div 10), d \div 10, k - 1)
         ELSE ScaledFloor(q * 10 + ((r * 10) \div d), (r * 10) % d, d, k - 1)

RECURSIVE Pow10(_)
Pow10(k) == IF k = 0 THEN 1 ELSE 10 * Pow10(k - 1)

toFixed(x, k) ==
    IF x[2] = 0 THEN x
    ELSE
        LET a == Abs(x[1])
            s == ScaledFloor(a \div x[2], a % x[2], x[2], k)
            n == IF 2 * s[2] >= s[3] THEN s[1] + 1 ELSE s[1]
        IN  <<IF x[1] < 0 THEN -n ELSE n, Pow10(k)>>

-----------------------------------------------------------------------------
(* Constants of the module under test.                                     *)

BASE_LIMITS ==
    [long  |-> [increasing |-> <<Rat(-2, 1000), Rat(-4, 1000), Rat(-6, 1000)>>,
                equal      |-> <<Rat(-5, 1000), Rat(-10, 1000), Rat(-15, 1000)>>,
                decreasing |-> <<Rat(-10, 1000), Rat(-20, 1000), Rat(-30, 1000)>>],
     short |-> [increasing |-> <<Rat(2, 1000), Rat(4, 1000), Rat(6, 1000)>>,
                equal      |-> <<Rat(1, 100), Rat(2, 100), Rat(4, 100)>>,
                decreasing |-> <<Rat(2, 100), Rat(4, 100), Rat(6, 100)>>]]

TP_SPLITS == <<Rat(40, 100), Rat(35, 100), Rat(25, 100)>>

(* String.prototype.toLowerCase on the direction strings of the model.     *)
toLowerCase(s) ==
    CASE s = "LONG" -> "long"
      [] s = "SHORT" -> "short"
      [] OTHER -> s

(* Destructuring with defaults (lines 72-93): an omitted (or undefined)    *)
(* optional field takes its default.                                       *)
Get(p, f, dflt) == IF f \in DOMAIN p THEN p[f] ELSE dflt

Destructure(p) ==
    [deposit            |-> p.deposit,
     direction          |-> p.direction,
     current_price      |-> p.current_price,
     leverage           |-> p.leverage,
     num_limits         |-> Get(p, "num_limits", 2),
     limit_style        |-> Get(p, "limit_style", "increasing"),
     deposit_risk       |-> Get(p, "deposit_risk", Rat(143, 1000)),
     stop_risk          |-> Get(p, "stop_risk", Rat(5, 100)),
     tp_percents        |-> Get(p, "tp_percents", <<Rat(4, 100), Rat(9, 100), Rat(16, 100)>>),
     position_sizing    |-> Get(p, "position_sizing", "fixed"),
     win_rate           |-> Get(p, "win_rate", Rat(5, 10)),
     avg_win_loss_ratio |-> Get(p, "avg_win_loss_ratio", Num(2)),
     fixed_fraction     |-> Get(p, "fixed_fraction", Rat(2, 100)),
     atr_value          |-> Get(p, "atr_value", Zero),
     atr_multiplier     |-> Get(p, "atr_multiplier", Num(2)),
     target_risk_pct    |-> Get(p, "target_risk_pct", Rat(2, 100))]

normalizedDirection(a) == toLowerCase(a.direction)

(* null, which bind:value gives the variable of a number input that has    *)
(* been emptied, where a number is expected.  The arithmetic operators     *)
(* convert it to 0 (ToNumber); a method call on it throws a TypeError.     *)
null_number == <<0, -1>>

ToNumber(x) == IF x = null_number THEN Zero ELSE x

(* s[i] read as a number: an index outside the array reads undefined,      *)
(* which is NaN in arithmetic.  Indices are 1-based in the model.          *)
At(s, i) == IF i \in DOMAIN s THEN s[i] ELSE NaN

(* Array.prototype.slice(0, end): a negative end counts from the end of    *)
(* the array, an end past the array stops at its length.                   *)
slice(s, end) ==
    LET e == IF end < 0 THEN Len(s) + end ELSE end
    IN  SubSeq(s, 1, IF e < 0 THEN 0 ELSE IF e > Len(s) THEN Len(s) ELSE e)

-----------------------------------------------------------------------------
(* Position sizing, lines 97-139.                                          *)

kelly_fraction(a) ==
    LET p == a.win_rate
        q == RSub(One, p)
        b == a.avg_win_loss_ratio
    IN  RDiv(RSub(RMul(b, p), q), b)

(* Mutant: the half-Kelly fraction capped at 25% but not floored at 0.     *)
safe_kelly_noFloor(a) ==
    RMin(RMul(kelly_fraction(a), Rat(5, 10)), Rat(25, 100))

safe_kelly(a) ==
    RMax(Zero, RMin(RMul(kelly_fraction(a), Rat(5, 10)), Rat(25, 100)))

volatility_adjusted_risk(a) ==
    LET volatility_factor == RMul(a.atr_value, a.atr_multiplier)
        base_risk == RMul(a.deposit, a.deposit_risk)
    IN  RDiv(base_risk, RAdd(One, RDiv(volatility_factor, ToNumber(a.current_price))))

(* Mutant: the volatility branch without its 1% minimum.                   *)
calculated_margin_noMinimum(a) ==
    IF a.position_sizing = "kelly" THEN
        RMul(a.deposit, safe_kelly(a))
    ELSE IF a.position_sizing = "fixed_fractional" THEN
        RMul(a.deposit, a.fixed_fraction)
    ELSE IF a.position_sizing = "volatility" /\ RLess(Zero, a.atr_value) THEN
        volatility_adjusted_risk(a)
    ELSE IF a.position_sizing = "risk_parity" THEN
        RMul(a.deposit, a.target_risk_pct)
    ELSE
        RMul(a.deposit, a.deposit_risk)

(* Mutant: the risk_parity branch sized by fixed_fraction.                 *)
calculated_margin_parityByFraction(a) ==
    IF a.position_sizing = "kelly" THEN
        RMul(a.deposit, safe_kelly(a))
    ELSE IF a.position_sizing = "fixed_fractional" THEN
        RMul(a.deposit, a.fixed_fraction)
    ELSE IF a.position_sizing = "volatility" /\ RLess(Zero, a.atr_value) THEN
        RMax(volatility_adjusted_risk(a), RMul(a.deposit, Rat(1, 100)))
    ELSE IF a.position_sizing = "risk_parity" THEN
        RMul(a.deposit, a.fixed_fraction)
    ELSE
        RMul(a.deposit, a.deposit_risk)

calculated_margin(a) ==
    IF a.position_sizing = "kelly" THEN
        RMul(a.deposit, safe_kelly(a))
    ELSE IF a.position_sizing = "fixed_fractional" THEN
        RMul(a.deposit, a.fixed_fraction)
    ELSE IF a.position_sizing = "volatility" /\ RLess(Zero, a.atr_value) THEN
        RMax(volatility_adjusted_risk(a), RMul(a.deposit, Rat(1, 100)))
    ELSE IF a.position_sizing = "risk_parity" THEN
        RMul(a.deposit, a.target_risk_pct)
    ELSE
        RMul(a.deposit, a.deposit_risk)

sizing_method_name(a) ==
    IF a.position_sizing = "kelly" THEN "Kelly Criterion (Half-Kelly)"
    ELSE IF a.position_sizing = "fixed_fractional" THEN "Fixed Fractional"
    ELSE IF a.position_sizing = "volatility" /\ RLess(Zero, a.atr_value)
        THEN "Volatility-Based (ATR)"
    ELSE IF a.position_sizing = "risk_parity" THEN "Risk Parity"
    ELSE "Fixed Risk"

(* The note's template text is fixed per method; the model keeps the       *)
(* numbers formatted into it.                                              *)
sizing_note(a) ==
    IF a.position_sizing = "kelly" THEN
        <<toFixed(RMul(a.win_rate, Num(100)), 1), toFixed(a.avg_win_loss_ratio, 2)>>
    ELSE IF a.position_sizing = "fixed_fractional" THEN
        <<toFixed(RMul(a.fixed_fraction, Num(100)), 1)>>
    ELSE IF a.position_sizing = "volatility" /\ RLess(Zero, a.atr_value) THEN
        <<toFixed(a.atr_value, 6), a.atr_multiplier>>
    ELSE IF a.position_sizing = "risk_parity" THEN
        <<toFixed(RMul(a.target_risk_pct, Num(100)), 1)>>
    ELSE
        <<toFixed(RMul(a.deposit_risk, Num(100)), 1)>>

(* Lines 143-145.                                                         *)
(* Mutant: the position taken from the deposit rather than the margin.     *)
position_fromDeposit(margin, a) == RMul(a.deposit, a.leverage)

position(margin, a) == RMul(margin, a.leverage)

stop_usd(pos, a) == RMul(pos, a.stop_risk)

-----------------------------------------------------------------------------
(* Margin splits, lines 147-181.  Array(num_limits).fill(equalSplit) is    *)
(* the sequence of num_limits copies.                                      *)

(* Mutant: a three-limit table that does not sum to 1.                     *)
splits_notSummingToOne(a) ==
    IF a.num_limits <= 1 THEN <<One>>
    ELSE IF a.limit_style = "equal" THEN
        [i \in 1..a.num_limits |-> RDiv(One, Num(a.num_limits))]
    ELSE IF a.limit_style = "increasing" THEN
        IF a.num_limits = 2 THEN <<Rat(7, 10), Rat(3, 10)>>
        ELSE <<Rat(6, 10), Rat(3, 10), Rat(3, 10)>>
    ELSE IF a.limit_style = "decreasing" THEN
        IF a.num_limits = 2 THEN <<Rat(4, 10), Rat(6, 10)>>
        ELSE <<Rat(3, 10), Rat(3, 10), Rat(4, 10)>>
    ELSE
        IF a.num_limits = 2 THEN <<Rat(5, 10), Rat(5, 10)>>
        ELSE <<Rat(33, 100), Rat(33, 100), Rat(34, 100)>>

(* Mutant: the tables of increasing and decreasing exchanged.              *)
splits_stylesExchanged(a) ==
    IF a.num_limits <= 1 THEN <<One>>
    ELSE IF a.limit_style = "equal" THEN
        [i \in 1..a.num_limits |-> RDiv(One, Num(a.num_limits))]
    ELSE IF a.limit_style = "decreasing" THEN
        IF a.num_limits = 2 THEN <<Rat(7, 10), Rat(3, 10)>>
        ELSE <<Rat(6, 10), Rat(3, 10), Rat(1, 10)>>
    ELSE IF a.limit_style = "increasing" THEN
        IF a.num_limits = 2 THEN <<Rat(4, 10), Rat(6, 10)>>
        ELSE <<Rat(3, 10), Rat(3, 10), Rat(4, 10)>>
    ELSE
        IF a.num_limits = 2 THEN <<Rat(5, 10), Rat(5, 10)>>
        ELSE <<Rat(33, 100), Rat(33, 100), Rat(34, 100)>>

splits(a) ==
    IF a.num_limits <= 1 THEN <<One>>
    ELSE IF a.limit_style = "equal" THEN
        [i \in 1..a.num_limits |-> RDiv(One, Num(a.num_limits))]
    ELSE IF a.limit_style = "increasing" THEN
        IF a.num_limits = 2 THEN <<Rat(7, 10), Rat(3, 10)>>
        ELSE <<Rat(6, 10), Rat(3, 10), Rat(1, 10)>>
    ELSE IF a.limit_style = "decreasing" THEN
        IF a.num_limits = 2 THEN <<Rat(4, 10), Rat(6, 10)>>
        ELSE <<Rat(3, 10), Rat(3, 10), Rat(4, 10)>>
    ELSE
        IF a.num_limits = 2 THEN <<Rat(5, 10), Rat(5, 10)>>
        ELSE <<Rat(33, 100), Rat(33, 100), Rat(34, 100)>>

(* Array.prototype.sort with the comparators of lines 203 and 207:         *)
(* (a, b) => a - b sorts ascending, (a, b) => b - a descending.  Insertion *)
(* into an already sorted sequence.                                        *)
Before(x, y, descending) == IF descending THEN RLess(y, x) ELSE RLess(x, y)

RECURSIVE Insert(_, _, _)
Insert(x, s, descending) ==
    IF s = <<>> THEN <<x>>
    ELSE IF Before(x, Head(s), descending) THEN <<x>> \o s
    ELSE <<Head(s)>> \o Insert(x, Tail(s), descending)

RECURSIVE Sort(_, _)
Sort(s, descending) ==
    IF s = <<>> THEN <<>>
    ELSE Insert(Head(s), Sort(Tail(s), descending), descending)

(* Lines 194-208.  The lookup BASE_LIMITS[dir][style] of an unknown        *)
(* direction reads a property of undefined, and spreading the undefined    *)
(* table of an unknown style is not iterable: both throw a TypeError.      *)
LookupThrows(a) ==
    IF normalizedDirection(a) \in DOMAIN BASE_LIMITS
    THEN a.limit_style \notin DOMAIN BASE_LIMITS[normalizedDirection(a)]
    ELSE TRUE

distances(a) == BASE_LIMITS[normalizedDirection(a)][a.limit_style]

(* Mutant: both directions sorted descending, as an earlier revision did.  *)
sortedDistances_alwaysDescending(a) ==
    Sort(slice(distances(a), a.num_limits), TRUE)

sortedDistances(a) ==
    LET sliced == slice(distances(a), a.num_limits)
    IN  IF normalizedDirection(a) = "long"
        THEN Sort(sliced, FALSE)
        ELSE Sort(sliced, TRUE)

(* Lines 183-220: the limit orders and the average entry price.  sp is    *)
(* the splits array, sd the sortedDistances array.  The loop runs          *)
(* num_limits times (not at all for a negative num_limits) and reads       *)
(* sd[i] and sp[i] whether or not the arrays are that long.                *)
limit_price(a, distance) == RMul(ToNumber(a.current_price), RAdd(One, distance))

(* Mutant: no market entry for num_limits = 0, only the loop.              *)
limits_loopOnly(a, margin, sp, sd) ==
    [i \in 1..a.num_limits |->
        [price  |-> toFixed(limit_price(a, At(sd, i)), 6),
         margin |-> toFixed(RMul(margin, At(sp, i)), 2)]]

limits(a, margin, sp, sd) ==
    IF a.num_limits = 0 THEN
        <<[price |-> toFixed(a.current_price, 6), margin |-> toFixed(margin, 2)]>>
    ELSE
        [i \in 1..a.num_limits |->
            [price  |-> toFixed(limit_price(a, At(sd, i)), 6),
             margin |-> toFixed(RMul(margin, At(sp, i)), 2)]]

(* Mutant: the accumulator kept outside the function and not reset: after  *)
(* the first call it starts from current_price instead of 0.               *)
avg_price_keptAcrossCalls(a, sp, sd) ==
    IF a.num_limits = 0 THEN a.current_price
    ELSE RDiv(RAdd(IF calls = <<>> THEN Zero ELSE a.current_price,
                   RSum([i \in 1..a.num_limits |->
                            RMul(limit_price(a, At(sd, i)), At(sp, i))])),
              RSum(sp))

(* Mutant: the simple mean of the limit prices.                            *)
avg_price_simpleMean(a, sp, sd) ==
    IF a.num_limits = 0 THEN a.current_price
    ELSE RDiv(RSum([i \in 1..a.num_limits |-> limit_price(a, At(sd, i))]),
              Num(a.num_limits))

avg_price(a, sp, sd) ==
    IF a.num_limits = 0 THEN a.current_price
    ELSE RDiv(RSum([i \in 1..a.num_limits |->
                        RMul(limit_price(a, At(sd, i)), At(sp, i))]),
              RSum(sp))

-----------------------------------------------------------------------------
(* Stop, liquidation and safety figures, lines 222-244.                    *)

(* Mutant: the stop taken from current_price rather than the entry price.  *)
stop_price_fromCurrentPrice(a, avg) ==
    IF normalizedDirection(a) = "long"
    THEN RMul(a.current_price, RSub(One, a.stop_risk))
    ELSE RMul(a.current_price, RAdd(One, a.stop_risk))

stop_price(a, avg) ==
    IF normalizedDirection(a) = "long"
    THEN RMul(avg, RSub(One, a.stop_risk))
    ELSE RMul(avg, RAdd(One, a.stop_risk))

(* Mutant: liquidation a fixed 10% from the entry, whatever the leverage.   *)
liquidation_price_ignoringLeverage(a, avg) ==
    IF normalizedDirection(a) = "long"
    THEN RMul(avg, RSub(One, Rat(1, 10)))
    ELSE RMul(avg, RAdd(One, Rat(1, 10)))

liquidation_price(a, avg) ==
    IF normalizedDirection(a) = "long"
    THEN RMul(avg, RSub(One, RDiv(One, a.leverage)))
    ELSE RMul(avg, RAdd(One, RDiv(One, a.leverage)))

(* Mutant: the signed distance, without the branch on the direction.       *)
liquidation_distance_pct_signed(a, avg, liq) ==
    RMul(RDiv(RSub(liq, avg), avg), Num(100))

liquidation_distance_pct(a, avg, liq) ==
    IF normalizedDirection(a) = "long"
    THEN RMul(RDiv(RSub(avg, liq), avg), Num(100))
    ELSE RMul(RDiv(RSub(liq, avg), avg), Num(100))

(* Mutant: the long formula used for both directions.                      *)
safety_margin_pct_longOnly(a, avg, stop, liq) ==
    RMul(RDiv(RSub(stop, liq), avg), Num(100))

safety_margin_pct(a, avg, stop, liq) ==
    IF normalizedDirection(a) = "long"
    THEN RMul(RDiv(RSub(stop, liq), avg), Num(100))
    ELSE RMul(RDiv(RSub(liq, stop), avg), Num(100))

(* Take profits, lines 246-260.  take is the callback of tp_percents.map   *)
(* for the percentage tp at index i (1-based in the model).                *)

(* Mutant: the profit divided by stop_usd + 1 rather than guarded.         *)
take_shiftedRatio(a, pos, susd, avg, tp, i) ==
    LET tp_profit == RMul(RMul(pos, tp), At(TP_SPLITS, i))
        risk_reward_ratio == RDiv(tp_profit, RAdd(susd, One))
    IN  [level       |-> i,
         price       |-> toFixed(IF normalizedDirection(a) = "long"
                                 THEN RMul(avg, RAdd(One, tp))
                                 ELSE RMul(avg, RSub(One, tp)), 6),
         move_pct    |-> toFixed(RMul(tp, Num(100)), 2),
         usd         |-> toFixed(tp_profit, 2),
         risk_reward |-> toFixed(risk_reward_ratio, 2)]

(* Mutant: every level given an equal third of the position's profit.      *)
take_equalThirds(a, pos, susd, avg, tp, i) ==
    LET tp_profit == RMul(RMul(pos, tp), Rat(1, 3))
        risk_reward_ratio ==
            IF RLess(Zero, susd) THEN RDiv(tp_profit, susd) ELSE Zero
    IN  [level       |-> i,
         price       |-> toFixed(IF normalizedDirection(a) = "long"
                                 THEN RMul(avg, RAdd(One, tp))
                                 ELSE RMul(avg, RSub(One, tp)), 6),
         move_pct    |-> toFixed(RMul(tp, Num(100)), 2),
         usd         |-> toFixed(tp_profit, 2),
         risk_reward |-> toFixed(risk_reward_ratio, 2)]

take(a, pos, susd, avg, tp, i) ==
    LET tp_profit == RMul(RMul(pos, tp), At(TP_SPLITS, i))
        risk_reward_ratio ==
            IF RLess(Zero, susd) THEN RDiv(tp_profit, susd) ELSE Zero
    IN  [level       |-> i,
         price       |-> toFixed(IF normalizedDirection(a) = "long"
                                 THEN RMul(avg, RAdd(One, tp))
                                 ELSE RMul(avg, RSub(One, tp)), 6),
         move_pct    |-> toFixed(RMul(tp, Num(100)), 2),
         usd         |-> toFixed(tp_profit, 2),
         risk_reward |-> toFixed(risk_reward_ratio, 2)]

(* Mutant: the percentages sorted ascending before the levels are made.    *)
takes_ascending(a, pos, susd, avg) ==
    [i \in 1..Len(a.tp_percents) |->
        take(a, pos, susd, avg, Sort(a.tp_percents, FALSE)[i], i)]

takes(a, pos, susd, avg) ==
    [i \in 1..Len(a.tp_percents) |-> take(a, pos, susd, avg, a.tp_percents[i], i)]

(* The call throws when it reaches the table lookup (num_limits is not 0)  *)
(* and the lookup throws, and when it reaches current_price.toFixed(6) of  *)
(* line 190 (num_limits is 0) with a current_price that is null.           *)
Throws(a) ==
    IF a.num_limits = 0 THEN a.current_price = null_number ELSE LookupThrows(a)

(* The local constants of a call that returns, before formatting, in the   *)
(* order the body computes them.                                           *)
Locals(a) ==
    LET m    == calculated_margin(a)
        pos  == position(m, a)
        susd == stop_usd(pos, a)
        sp   == splits(a)
        sd   == IF a.num_limits = 0 THEN <<>> ELSE sortedDistances(a)
        avg  == avg_price(a, sp, sd)
        stop == stop_price(a, avg)
        liq  == liquidation_price(a, avg)
    IN  [margin                   |-> m,
         position                 |-> pos,
         stop_usd                 |-> susd,
         splits                   |-> sp,
         sortedDistances          |-> sd,
         avg_price                |-> avg,
         stop_price               |-> stop,
         liquidation_price        |-> liq,
         liquidation_distance_pct |-> liquidation_distance_pct(a, avg, liq),
         safety_margin_pct        |-> safety_margin_pct(a, avg, stop, liq)]

(* The returned record, lines 262-275.                                     *)
calculateTrade3TP(p) ==
    LET a == Destructure(p)
        v == Locals(a)
    IN  [margin                   |-> toFixed(v.margin, 2),
         position                 |-> toFixed(v.position, 2),
         entry_price              |-> toFixed(v.avg_price, 6),
         stop_price               |-> toFixed(v.stop_price, 6),
         stop_usd                 |-> toFixed(v.stop_usd, 2),
         liquidation_price        |-> toFixed(v.liquidation_price, 6),
         liquidation_distance_pct |-> toFixed(v.liquidation_distance_pct, 2),
         safety_margin_pct        |-> toFixed(v.safety_margin_pct, 2),
         limits                   |-> limits(a, v.margin, v.splits, v.sortedDistances),
         takes                    |-> takes(a, v.position, v.stop_usd, v.avg_price),
         position_sizing_method   |-> sizing_method_name(a),
         position_sizing_note     |-> sizing_note(a)]

-----------------------------------------------------------------------------
(* The aggressive/equal/moderate revision of calculateTrade3TP,            *)
(* src/unnamed/part_001.  Its loop over the limits, its average entry      *)
(* price and its stop price (lines 107-147) are, statement for statement,  *)
(* those of the revision above, and limits, avg_price, position, stop_usd  *)
(* and stop_price are used for both; what differs is defined here.         *)

BASE_LIMITS_part001 ==
    [long  |-> [aggressive |-> <<Rat(-2, 1000), Rat(-4, 1000), Rat(-6, 1000)>>,
                equal      |-> <<Rat(-5, 1000), Rat(-10, 1000), Rat(-15, 1000)>>,
                moderate   |-> <<Rat(-10, 1000), Rat(-20, 1000), Rat(-30, 1000)>>],
     short |-> [aggressive |-> <<Rat(2, 1000), Rat(4, 1000), Rat(6, 1000)>>,
                equal      |-> <<Rat(1, 100), Rat(2, 100), Rat(4, 100)>>,
                moderate   |-> <<Rat(2, 100), Rat(4, 100), Rat(6, 100)>>]]

(* Destructuring with defaults, lines 54-68.                               *)
Destructure_part001(p) ==
    [deposit       |-> p.deposit,
     direction     |-> p.direction,
     current_price |-> p.current_price,
     leverage      |-> p.leverage,
     num_limits    |-> Get(p, "num_limits", 2),
     limit_style   |-> Get(p, "limit_style", "aggressive"),
     deposit_risk  |-> Get(p, "deposit_risk", Rat(143, 1000)),
     stop_risk     |-> Get(p, "stop_risk", Rat(5, 100)),
     tp_percents   |-> Get(p, "tp_percents", <<Rat(4, 100), Rat(9, 100), Rat(16, 100)>>)]

(* Line 74.                                                                *)
margin_part001(a) == RMul(a.deposit, a.deposit_risk)

(* Lines 79-105.                                                           *)
splits_part001(a) ==
    IF a.num_limits <= 1 THEN <<One>>
    ELSE IF a.limit_style = "equal" THEN
        [i \in 1..a.num_limits |-> RDiv(One, Num(a.num_limits))]
    ELSE IF a.limit_style = "aggressive" THEN
        IF a.num_limits = 2 THEN <<Rat(7, 10), Rat(3, 10)>>
        ELSE <<Rat(6, 10), Rat(3, 10), Rat(1, 10)>>
    ELSE IF a.limit_style = "moderate" THEN
        IF a.num_limits = 2 THEN <<Rat(4, 10), Rat(6, 10)>>
        ELSE <<Rat(3, 10), Rat(3, 10), Rat(4, 10)>>
    ELSE
        IF a.num_limits = 2 THEN <<Rat(5, 10), Rat(5, 10)>>
        ELSE <<Rat(33, 100), Rat(33, 100), Rat(34, 100)>>

(* Lines 118-130.  The lookup throws as in the revision above.  Both       *)
(* branches of the if sort with (a, b) => b - a, descending.               *)
LookupThrows_part001(a) ==
    IF normalizedDirection(a) \in DOMAIN BASE_LIMITS_part001
    THEN a.limit_style \notin DOMAIN BASE_LIMITS_part001[normalizedDirection(a)]
    ELSE TRUE

distances_part001(a) == BASE_LIMITS_part001[normalizedDirection(a)][a.limit_style]

sortedDistances_part001(a) ==
    LET sliced == slice(distances_part001(a), a.num_limits)
    IN  IF normalizedDirection(a) = "long"
        THEN Sort(sliced, TRUE)
        ELSE Sort(sliced, TRUE)

(* Lines 149-156: a take-profit level has no risk_reward in this revision. *)
takes_part001(a, pos, avg) ==
    [i \in 1..Len(a.tp_percents) |->
        [level    |-> i,
         price    |-> toFixed(IF normalizedDirection(a) = "long"
                              THEN RMul(avg, RAdd(One, a.tp_percents[i]))
                              ELSE RMul(avg, RSub(One, a.tp_percents[i])), 6),
         move_pct |-> toFixed(RMul(a.tp_percents[i], Num(100)), 2),
         usd      |-> toFixed(RMul(RMul(pos, a.tp_percents[i]), At(TP_SPLITS, i)), 2)]]

Throws_part001(a) == a.num_limits # 0 /\ LookupThrows_part001(a)

Locals_part001(a) ==
    LET m   == margin_part001(a)
        pos == position(m, a)
        sp  == splits_part001(a)
        sd  == IF a.num_limits = 0 THEN <<>> ELSE sortedDistances_part001(a)
        avg == avg_price(a, sp, sd)
    IN  [margin          |-> m,
         position        |-> pos,
         stop_usd        |-> stop_usd(pos, a),
         splits          |-> sp,
         sortedDistances |-> sd,
         avg_price       |-> avg,
         stop_price      |-> stop_price(a, avg)]

(* The returned record, lines 158-166.                                     *)
calculateTrade3TP_part001(p) ==
    LET a == Destructure_part001(p)
        v == Locals_part001(a)
    IN  [margin      |-> toFixed(v.margin, 2),
         position    |-> toFixed(v.position, 2),
         entry_price |-> toFixed(v.avg_price, 6),
         stop_price  |-> toFixed(v.stop_price, 6),
         stop_usd    |-> toFixed(v.stop_usd, 2),
         limits      |-> limits(a, v.margin, v.splits, v.sortedDistances),
         takes       |-> takes_part001(a, v.position, v.avg_price)]

-----------------------------------------------------------------------------
(* The inputs of the calls the model makes.                                *)

MaxDepositSteps == 2

DefaultDeposit == 1290

Deposits == {Num(DefaultDeposit * k) : k \in 1..MaxDepositSteps}

Directions == {"long", "short", "LONG", "sideways"}

(* 0.466 is the page's default price; at 0.0004 neighbouring limit prices  *)
(* fall within one unit of the sixth decimal.  The fractions' numerators   *)
(* and denominators must stay below 2^31: with the price 0.0004 that holds *)
(* for leverages whose least common multiple with 20 is at most 140.       *)
Prices == {Rat(466, 1000), Rat(4, 10000)}

Leverages == {Num(7), Num(20)}

LimitStyles == {"increasing", "equal", "decreasing", "aggressive"}

SizingMethods ==
    {"fixed", "kelly", "fixed_fractional", "volatility", "risk_parity", "martingale"}

(* An optional field: left out, or given one of the values.                *)
Optional(f, values) == {<<>>} \cup {[x \in {f} |-> v] : v \in values}

Given(f, values) == {[x \in {f} |-> v] : v \in values}

Required ==
    [deposit : Deposits, direction : Directions,
     current_price : Prices, leverage : Leverages]

(* Calls that vary the entry construction, the sizing parameters left to   *)
(* their defaults.                                                         *)
EntryInputs ==
    {r @@ n @@ s @@ d @@ m :
        r \in Required,
        n \in Optional("num_limits", 0..3),
        s \in Optional("limit_style", LimitStyles),
        d \in Optional("deposit_risk", {Rat(1, 7)}),
        m \in Optional("position_sizing", SizingMethods)}

(* Calls that vary the sizing parameters.                                  *)
SizingInputs ==
    {r @@ n @@ d @@ m @@ w @@ b @@ f @@ v @@ t :
        r \in {q \in Required : q.direction = "short"},
        n \in Given("num_limits", {2}),
        d \in Optional("deposit_risk", {Rat(1, 7)}),
        m \in Given("position_sizing", SizingMethods),
        w \in Given("win_rate", {Zero, Rat(55, 100), One}),
        b \in Given("avg_win_loss_ratio", {Rat(1, 2), Num(2)}),
        f \in Optional("fixed_fraction", {Rat(5, 100)}),
        v \in {<<>>, [atr_value |-> Rat(1, 100)],
                [atr_value |-> Num(5), atr_multiplier |-> Num(3)]},
        t \in Optional("target_risk_pct", {Rat(10, 100)})}

(* Calls that vary the stop and the take profits: stop at, inside and      *)
(* beyond the liquidation distance, take-profit percentages in and out of  *)
(* ascending order, and a Kelly fraction clamped to 0.                     *)
StopRisks == {Zero, Rat(1, 7), Rat(1, 5)}

TpPercents ==
    {<<Rat(16, 100), Rat(4, 100), Rat(9, 100)>>,
     <<Rat(7, 100), Rat(15, 100), Rat(25, 100)>>}

TakeInputs ==
    {r @@ n @@ s @@ t @@ m :
        r \in {q \in Required : q.deposit = Num(DefaultDeposit)},
        n \in Optional("num_limits", {0, 3}),
        s \in Optional("stop_risk", StopRisks),
        t \in Optional("tp_percents", TpPercents),
        m \in {<<>>, [position_sizing |-> "kelly", win_rate |-> Zero]}}

(* Calls with a number outside its domain: a deposit, price or leverage    *)
(* that is not positive, a num_limits outside 0..3, a fraction outside     *)
(* [0, 1], a tp_percents that has not 3 entries.                           *)
OutOfDomainRequired ==
    [deposit : {Num(-DefaultDeposit), Num(DefaultDeposit)},
     direction : {"long", "short"},
     current_price : {Zero, Rat(466, 1000)},
     leverage : {Zero, Num(-7), Num(7)}]
        \ Required

OutOfDomainOptions ==
    Given("deposit_risk", {Rat(3, 2), Rat(-1, 10)})
        \cup Given("stop_risk", {Num(2), Rat(-1, 20)})
        \cup Given("tp_percents", {<<Rat(4, 100), Rat(9, 100)>>,
                                   <<Rat(4, 100), Rat(9, 100), Rat(16, 100), Rat(25, 100)>>})
        \cup {[position_sizing |-> "kelly", win_rate |-> Rat(3, 2)],
              [position_sizing |-> "fixed_fractional", fixed_fraction |-> Num(-1)]}

DomainInputs ==
    {r @@ n : r \in OutOfDomainRequired, n \in Optional("num_limits", {0, 3})}
        \cup {r @@ n @@ s :
                 r \in Required,
                 n \in Given("num_limits", {-1, 4}),
                 s \in Optional("limit_style", LimitStyles)}
        \cup {r @@ x : r \in Required, x \in OutOfDomainOptions}

Inputs == EntryInputs \cup SizingInputs \cup TakeInputs \cup DomainInputs

-----------------------------------------------------------------------------
(* Calls made one after another by the function's callers: both           *)
(* leverages under every sizing method, a Kelly fraction clamped to 0,     *)
(* both directions, and a call that throws.                                *)
CallBase(d, l) ==
    [deposit |-> Num(DefaultDeposit), direction |-> d,
     current_price |-> Rat(466, 1000), leverage |-> l]

CallSizings ==
    {<<>>,
     [position_sizing |-> "kelly", win_rate |-> Zero],
     [position_sizing |-> "kelly", win_rate |-> Rat(55, 100)],
     [position_sizing |-> "fixed_fractional"],
     [position_sizing |-> "volatility", atr_value |-> Rat(1, 100)],
     [position_sizing |-> "risk_parity"]}

CallInputs ==
    {CallBase("short", l) @@ m : l \in Leverages, m \in CallSizings}
        \cup {CallBase("long", l) : l \in Leverages}
        \cup {CallBase("sideways", Num(7))}

MaxCalls == 3

-----------------------------------------------------------------------------
(* The page, src/src/routes/+page.svelte.  The component's variables       *)
(* (lines 5-19 and 82-84) are the fields of page; pending counts the       *)
(* handleCalculate invocations waiting in their 300 ms delay, and clicked  *)
(* records the argument object the form stood for at the latest click.     *)
(* writes are the values of the copyToClipboard calls waiting for the      *)
(* clipboard and timers the pending 2000 ms timers, oldest first, each     *)
(* named by the number of the successful copy that started it; copies      *)
(* counts the calls of copyToClipboard, successes those whose write was    *)
(* fulfilled, and shownBy is the number of the successful copy that set    *)
(* copiedValue (0 when copiedValue is null).                               *)

null == [null |-> TRUE]

(* null where a formatted string is expected (copiedValue, line 84).       *)
null_string == <<0, -1>>

InitialPage ==
    [deposit         |-> Num(DefaultDeposit),
     direction       |-> "short",
     currentPrice    |-> Rat(466, 1000),
     leverage        |-> Num(7),
     numLimits       |-> 2,
     limitStyle      |-> "increasing",
     positionSizing  |-> "fixed",
     winRate         |-> Num(55),
     avgWinLossRatio |-> Num(2),
     fixedFraction   |-> Num(2),
     atrValue        |-> Rat(1, 100),
     atrMultiplier   |-> Num(2),
     targetRiskPct   |-> Num(2),
     result          |-> null,
     showOutput      |-> FALSE,
     isLoading       |-> FALSE,
     pending         |-> 0,
     clicked         |-> null,
     copiedValue     |-> null_string,
     writes          |-> <<>>,
     timers          |-> <<>>,
     copies          |-> 0,
     successes       |-> 0,
     shownBy         |-> 0]

(* Mutant: the deposit risk a constant 14.3%, whatever the leverage.       *)
depositRisk_constant(f) == Rat(143, 10)

(* $: depositRisk = (1 / leverage) * 100, line 23.                         *)
depositRisk(f) == RMul(RDiv(One, f.leverage), Num(100))

(* The argument object of lines 105-120; a field given undefined is a      *)
(* field left out.                                                         *)
PageParams(f) ==
    [deposit         |-> f.deposit,
     direction       |-> f.direction,
     current_price   |-> f.currentPrice,
     leverage        |-> f.leverage,
     num_limits      |-> f.numLimits,
     limit_style     |-> f.limitStyle,
     deposit_risk    |-> RDiv(depositRisk(f), Num(100)),
     position_sizing |-> f.positionSizing]
    @@ (IF f.positionSizing = "kelly"
        THEN [win_rate |-> RDiv(f.winRate, Num(100)),
              avg_win_loss_ratio |-> f.avgWinLossRatio]
        ELSE <<>>)
    @@ (IF f.positionSizing = "fixed_fractional"
        THEN [fixed_fraction |-> RDiv(f.fixedFraction, Num(100))]
        ELSE <<>>)
    @@ (IF f.positionSizing = "volatility"
        THEN [atr_value |-> f.atrValue, atr_multiplier |-> f.atrMultiplier]
        ELSE <<>>)
    @@ (IF f.positionSizing = "risk_parity"
        THEN [target_risk_pct |-> f.targetRiskPct]
        ELSE <<>>)

(* parseFloat of a string made by toFixed: the number it denotes, NaN and  *)
(* the infinities for "NaN", "Infinity" and "-Infinity".                   *)
parseFloat(str) == IF str[2] = 0 THEN str ELSE Rat(str[1], str[2])

(* The results panel is rendered, lines 373-377.                           *)
ResultsRendered ==
    /\ ~page.isLoading
    /\ page.showOutput /\ page.result # null /\ ~page.isLoading

(* The badge next to the safety margin, lines 610-616, and the banner      *)
(* under the table, lines 629-637, of a rendered result r.                 *)
safety_badge(r) ==
    IF RLess(parseFloat(r.safety_margin_pct), Num(2)) THEN "Low"
    ELSE IF RLess(parseFloat(r.safety_margin_pct), Num(5)) THEN "Moderate"
    ELSE "Safe"

safety_banner(r) ==
    IF RLess(parseFloat(r.safety_margin_pct), Num(2)) THEN "Warning"
    ELSE IF RLess(parseFloat(r.safety_margin_pct), Num(5)) THEN "Caution"
    ELSE "none"

(* The values the user gives the inputs: leverages of leverageOptions      *)
(* (line 25), the number input of the price (lines 191-195, no minimum),   *)
(* which the user may also empty.                                          *)
FormLeverages == {Num(7), Num(12), Num(20)}

leverageOptions == {3, 5, 7, 9, 12, 20, 27, 30, 40, 50}

FormPrices == {Rat(466, 1000), Zero, null_number}

(* The selects of lines 243-251 and 332-339, and the number input of lines *)
(* 315-327 (min 0, max 100).                                               *)
FormSizings == {"fixed", "kelly", "fixed_fractional", "volatility", "risk_parity"}

FormNumLimits == {0, 2}

FormTargetRisks == {Num(2), Rat(1, 2)}

FormDirections == {"long", "short"}

-----------------------------------------------------------------------------
NoResult == [none |-> TRUE]

Init ==
    /\ params \in Inputs
    /\ pc = "ready"
    /\ result = NoResult
    /\ calls = <<>>
    /\ page = InitialPage

(* The call returns its result record.                                     *)
Return ==
    /\ pc = "ready"
    /\ ~Throws(Destructure(params))
    /\ result' = calculateTrade3TP(params)
    /\ pc' = "returned"
    /\ calls' = Append(calls, [params |-> params, outcome |-> "returned",
                               result |-> result'])
    /\ UNCHANGED <<params, page>>

(* The call ends in a TypeError and returns nothing.                       *)
Throw ==
    /\ pc = "ready"
    /\ Throws(Destructure(params))
    /\ pc' = "threw"
    /\ calls' = Append(calls, [params |-> params, outcome |-> "threw",
                               result |-> NoResult])
    /\ UNCHANGED <<params, result, page>>

Next == Return \/ Throw

Spec == Init /\ [][Next]_vars

(* A sequence of calls: once a call has ended a caller makes the next one. *)
CallsInit ==
    /\ params \in CallInputs
    /\ pc = "ready"
    /\ result = NoResult
    /\ calls = <<>>
    /\ page = InitialPage

Call ==
    /\ pc \in {"returned", "threw"}
    /\ Len(calls) < MaxCalls
    /\ params' \in CallInputs
    /\ pc' = "ready"
    /\ result' = NoResult
    /\ UNCHANGED <<calls, page>>

CallsNext == Return \/ Throw \/ Call

CallsSpec == CallsInit /\ [][CallsNext]_vars

-----------------------------------------------------------------------------
(* The page's handlers.                                                    *)

PageInit ==
    /\ params = <<>>
    /\ pc = "idle"
    /\ result = NoResult
    /\ calls = <<>>
    /\ page = InitialPage

(* bind:value of the direction, price and leverage inputs (lines 181, 194, *)
(* 203): the user gives an input another value.                            *)
EditDirection ==
    /\ \E d \in FormDirections \ {page.direction} :
          page' = [page EXCEPT !.direction = d]
    /\ UNCHANGED <<params, pc, result, calls>>

EditCurrentPrice ==
    /\ \E x \in FormPrices \ {page.currentPrice} :
          page' = [page EXCEPT !.currentPrice = x]
    /\ UNCHANGED <<params, pc, result, calls>>

EditLeverage ==
    /\ \E l \in FormLeverages \ {page.leverage} :
          page' = [page EXCEPT !.leverage = l]
    /\ UNCHANGED <<params, pc, result, calls>>

(* bind:value of the sizing select (line 245), of the target risk input,   *)
(* which is rendered for risk_parity only (lines 315-327), and of the      *)
(* select of the number of limits (line 334).                              *)
EditPositionSizing ==
    /\ \E m \in FormSizings \ {page.positionSizing} :
          page' = [page EXCEPT !.positionSizing = m]
    /\ UNCHANGED <<params, pc, result, calls>>

EditTargetRiskPct ==
    /\ page.positionSizing = "risk_parity"
    /\ \E x \in FormTargetRisks \ {page.targetRiskPct} :
          page' = [page EXCEPT !.targetRiskPct = x]
    /\ UNCHANGED <<params, pc, result, calls>>

EditNumLimits ==
    /\ \E n \in FormNumLimits \ {page.numLimits} :
          page' = [page EXCEPT !.numLimits = n]
    /\ UNCHANGED <<params, pc, result, calls>>

(* A click on Calculate (line 358; the button is disabled while isLoading, *)
(* line 359): handleCalculate up to its await, lines 98-103.               *)
handleCalculate ==
    /\ ~page.isLoading
    /\ page' = [page EXCEPT !.isLoading = TRUE, !.showOutput = FALSE,
                            !.pending = @ + 1, !.clicked = PageParams(page)]
    /\ UNCHANGED <<params, pc, result, calls>>

(* The 300 ms timer fires: handleCalculate from its await on, lines        *)
(* 105-124.  The call reads the form as it is now; if it throws, the       *)
(* assignments after it are not reached.                                   *)
handleCalculate_resume ==
    /\ page.pending > 0
    /\ params' = PageParams(page)
    /\ IF Throws(Destructure(params'))
       THEN /\ pc' = "threw"
            /\ result' = NoResult
            /\ page' = [page EXCEPT !.pending = @ - 1]
       ELSE /\ pc' = "returned"
            /\ result' = calculateTrade3TP(params')
            /\ page' = [page EXCEPT !.result = result', !.showOutput = TRUE,
                                    !.isLoading = FALSE, !.pending = @ - 1]
    /\ UNCHANGED calls

PageNext ==
    \/ EditDirection
    \/ EditCurrentPrice
    \/ EditLeverage
    \/ handleCalculate
    \/ handleCalculate_resume

PageSpec == PageInit /\ [][PageNext]_vars

(* The page with the inputs of the position sizing.                        *)
PageSizingNext ==
    \/ EditLeverage
    \/ EditPositionSizing
    \/ EditTargetRiskPct
    \/ handleCalculate
    \/ handleCalculate_resume

PageSizingSpec == PageInit /\ [][PageSizingNext]_vars

(* The copy buttons of the rendered panel (lines 390-396 and 414-420) and  *)
(* copyToClipboard, lines 86-96, up to its await.                          *)
MaxCopies == 3

CopyValues(r) == {r.margin, r.position}

copyToClipboard ==
    /\ ResultsRendered
    /\ page.copies < MaxCopies
    /\ \E value \in CopyValues(page.result) :
          page' = [page EXCEPT !.writes = Append(@, value), !.copies = @ + 1]
    /\ UNCHANGED <<params, pc, result, calls>>

(* writeText is fulfilled: copyToClipboard from its await on, lines 89-92. *)
(* The writes waiting end in any order.                                    *)
copyToClipboard_resume ==
    /\ \E i \in 1..Len(page.writes) :
          LET n == page.successes + 1
          IN  page' = [page EXCEPT
                          !.writes = SubSeq(@, 1, i - 1) \o SubSeq(@, i + 1, Len(@)),
                          !.copiedValue = page.writes[i],
                          !.successes = n,
                          !.shownBy = n,
                          !.timers = Append(@, n)]
    /\ UNCHANGED <<params, pc, result, calls>>

(* writeText is rejected: the catch of lines 93-95 only logs.              *)
copyToClipboard_catch ==
    /\ \E i \in 1..Len(page.writes) :
          page' = [page EXCEPT
                      !.writes = SubSeq(@, 1, i - 1) \o SubSeq(@, i + 1, Len(@))]
    /\ UNCHANGED <<params, pc, result, calls>>

(* The oldest 2000 ms timer fires, lines 90-92.                            *)
timeout_2000ms ==
    /\ page.timers # <<>>
    /\ page' = [page EXCEPT !.timers = Tail(@), !.copiedValue = null_string,
                            !.shownBy = 0]
    /\ UNCHANGED <<params, pc, result, calls>>

CopyNext ==
    \/ handleCalculate
    \/ handleCalculate_resume
    \/ copyToClipboard
    \/ copyToClipboard_resume
    \/ copyToClipboard_catch
    \/ timeout_2000ms

CopySpec == PageInit /\ [][CopyNext]_vars

(* The page with the inputs of the price and of the number of limits.      *)
PageLimitsNext ==
    \/ EditCurrentPrice
    \/ EditNumLimits
    \/ handleCalculate
    \/ handleCalculate_resume

PageLimitsSpec == PageInit /\ [][PageLimitsNext]_vars

-----------------------------------------------------------------------------
(* One call of the aggressive/equal/moderate revision.  "increasing" is a  *)
(* style of the other revision, which this one's table does not have.      *)
Styles_part001 == {"aggressive", "equal", "moderate", "increasing"}

Inputs_part001 ==
    {r @@ n @@ s :
        r \in Required,
        n \in Optional("num_limits", 0..3),
        s \in Optional("limit_style", Styles_part001)}

Part001Init ==
    /\ params \in Inputs_part001
    /\ pc = "ready"
    /\ result = NoResult
    /\ calls = <<>>
    /\ page = InitialPage

Return_part001 ==
    /\ pc = "ready"
    /\ ~Throws_part001(Destructure_part001(params))
    /\ result' = calculateTrade3TP_part001(params)
    /\ pc' = "returned"
    /\ calls' = Append(calls, [params |-> params, outcome |-> "returned",
                               result |-> result'])
    /\ UNCHANGED <<params, page>>

Throw_part001 ==
    /\ pc = "ready"
    /\ Throws_part001(Destructure_part001(params))
    /\ pc' = "threw"
    /\ calls' = Append(calls, [params |-> params, outcome |-> "threw",
                               result |-> NoResult])
    /\ UNCHANGED <<params, result, page>>

Part001Next == Return_part001 \/ Throw_part001

Part001Spec == Part001Init /\ [][Part001Next]_vars

-----------------------------------------------------------------------------
(* What the claims are stated over.                                        *)

Args == Destructure(params)

Returned == pc = "returned"

RAbs(x) == <<Abs(x[1]), x[2]>>

IsFraction(x) == RLeq(Zero, x) /\ RLeq(x, One)

RecognizedDirections == {"long", "short"}

RecognizedStyles == {"increasing", "equal", "decreasing"}

RecognizedSizings == {"fixed", "kelly", "fixed_fractional", "volatility", "risk_parity"}

(* direction is case-insensitive on input.                                 *)
ValidEnums(a) ==
    /\ toLowerCase(a.direction) \in RecognizedDirections
    /\ a.limit_style \in RecognizedStyles
    /\ a.position_sizing \in RecognizedSizings

ValidNumbers(a) ==
    /\ RLess(Zero, a.deposit)
    /\ RLess(Zero, a.current_price)
    /\ RLess(Zero, a.leverage)
    /\ a.num_limits \in 0..3
    /\ IsFraction(a.deposit_risk)
    /\ IsFraction(a.stop_risk)
    /\ Len(a.tp_percents) = 3
    /\ \A i \in 1..3 : IsFraction(a.tp_percents[i])
    /\ IsFraction(a.win_rate)
    /\ IsFraction(a.fixed_fraction)
    /\ IsFraction(a.target_risk_pct)
    /\ RLess(Zero, a.avg_win_loss_ratio)
    /\ RLeq(Zero, a.atr_value)
    /\ RLess(Zero, a.atr_multiplier)

ValidInput(a) == ValidEnums(a) /\ ValidNumbers(a)

ReturnedValid == Returned /\ ValidInput(Args)

(* The digits of a formatted number, as an integer of last-digit units.    *)
Units(str) == str[1]

(* The unrounded price of the i-th limit of the call; v is Locals(Args).   *)
LimitPrice(v, i) == limit_price(Args, v.sortedDistances[i])

(* p is a strictly worse entry than q: dearer for a long, cheaper for a    *)
(* short.                                                                  *)
StrictlyWorse(p, q) ==
    IF toLowerCase(Args.direction) = "long" THEN RLess(q, p) ELSE RLess(p, q)

SumOfLimitMargins ==
    RSum([i \in 1..Len(result.limits) |-> Num(Units(result.limits[i].margin))])[1]

-----------------------------------------------------------------------------
(* C1 as stated: the returned position field equals the returned margin    *)
(* field multiplied by leverage.                                           *)
C1_FieldsAsStated ==
    ReturnedValid =>
        Num(Units(result.position)) = RMul(Num(Units(result.margin)), Args.leverage)

(* C1, amended: before formatting, position is margin times leverage; the  *)
(* returned fields are those two values each rounded to cents, so they     *)
(* satisfy |position - margin * leverage| <= 0.005 * (leverage + 1).       *)
C1_PositionIsMarginTimesLeverage ==
    ReturnedValid =>
        LET v == Locals(Args)
        IN  /\ v.position = RMul(v.margin, Args.leverage)
            /\ result.margin = toFixed(v.margin, 2)
            /\ result.position = toFixed(RMul(v.margin, Args.leverage), 2)
            /\ RLeq(RMul(Num(2), RAbs(RSub(Num(Units(result.position)),
                                           RMul(Num(Units(result.margin)), Args.leverage)))),
                    RAdd(Args.leverage, One))

C1_Witness ==
    /\ ReturnedValid
    /\ Num(Units(result.position)) # RMul(Num(Units(result.margin)), Args.leverage)

(* C2 as stated: with two or more limits, index 0 is the best price and    *)
(* every later limit is at a strictly worse price; short + increasing with *)
(* two limits uses offsets [0.004, 0.002] with splits [0.7, 0.3].          *)
C2_ReturnedPricesStrictlyWorse ==
    (ReturnedValid /\ Args.num_limits >= 2) =>
        LET v == Locals(Args) IN
        /\ Len(result.limits) = Args.num_limits
        /\ \A i \in 1..(Args.num_limits - 1) :
              StrictlyWorse(Num(Units(result.limits[i + 1].price)),
                            Num(Units(result.limits[i].price)))
        /\ (toLowerCase(Args.direction) = "short" /\ Args.limit_style = "increasing"
                /\ Args.num_limits = 2) =>
              /\ v.sortedDistances = <<Rat(4, 1000), Rat(2, 1000)>>
              /\ v.splits = <<Rat(7, 10), Rat(3, 10)>>

(* C2, amended: the limits are ordered best price first and strictly so    *)
(* before formatting; the returned 6-decimal prices are never better at a  *)
(* later index, and strictly worse whenever the two prices differ by at    *)
(* least 0.000001.  The short + increasing example is as stated.           *)
C2_LimitsBestFirst ==
    (ReturnedValid /\ Args.num_limits >= 2) =>
        LET v == Locals(Args) IN
        /\ Len(result.limits) = Args.num_limits
        /\ \A i \in 1..(Args.num_limits - 1) :
              /\ StrictlyWorse(LimitPrice(v, i + 1), LimitPrice(v, i))
              /\ ~StrictlyWorse(Num(Units(result.limits[i].price)),
                                Num(Units(result.limits[i + 1].price)))
              /\ RLeq(Rat(1, 1000000), RAbs(RSub(LimitPrice(v, i + 1), LimitPrice(v, i)))) =>
                    StrictlyWorse(Num(Units(result.limits[i + 1].price)),
                                  Num(Units(result.limits[i].price)))
        /\ (toLowerCase(Args.direction) = "short" /\ Args.limit_style = "increasing"
                /\ Args.num_limits = 2) =>
              /\ v.sortedDistances = <<Rat(4, 1000), Rat(2, 1000)>>
              /\ v.splits = <<Rat(7, 10), Rat(3, 10)>>

C2_Witness ==
    /\ ReturnedValid
    /\ Args.num_limits = 3
    /\ Units(result.limits[1].price) = Units(result.limits[2].price)
    /\ StrictlyWorse(LimitPrice(Locals(Args), 2), LimitPrice(Locals(Args), 1))

(* C3: the margins of the returned limits sum to the returned margin,      *)
(* within half a cent for each of the amounts formatted.                   *)
C3_LimitMarginsSumToMargin ==
    ReturnedValid =>
        2 * Abs(SumOfLimitMargins - Units(result.margin)) <= Len(result.limits) + 1

C3_Witness ==
    /\ ReturnedValid
    /\ Args.num_limits = 3
    /\ Args.position_sizing = "kelly"
    /\ SumOfLimitMargins # Units(result.margin)

(* The split table of the claim: the share of limit i, by style and        *)
(* number of limits.                                                       *)
StatedSplits(style, n) ==
    IF n = 1 THEN <<One>>
    ELSE IF style = "equal" THEN [i \in 1..n |-> Rat(1, n)]
    ELSE IF style = "increasing"
         THEN (IF n = 2 THEN <<Rat(7, 10), Rat(3, 10)>>
                        ELSE <<Rat(6, 10), Rat(3, 10), Rat(1, 10)>>)
         ELSE (IF n = 2 THEN <<Rat(4, 10), Rat(6, 10)>>
                        ELSE <<Rat(3, 10), Rat(3, 10), Rat(4, 10)>>)

(* Limit i is at the best (worst) of the call's limit prices.              *)
AtBestPrice(v, i) ==
    \A j \in 1..Args.num_limits : j # i => StrictlyWorse(LimitPrice(v, j), LimitPrice(v, i))

AtWorstPrice(v, i) ==
    \A j \in 1..Args.num_limits : j # i => StrictlyWorse(LimitPrice(v, i), LimitPrice(v, j))

LargestShare(i) ==
    \A j \in 1..Args.num_limits :
        j # i => RLess(StatedSplits(Args.limit_style, Args.num_limits)[j],
                       StatedSplits(Args.limit_style, Args.num_limits)[i])

(* C4: the margin of limit i is margin x split[i] (formatted to cents)     *)
(* with the stated split table; increasing puts the largest share on the   *)
(* best price and decreasing on the worst price, for both directions.      *)
C4_LimitMarginsFollowSplits ==
    (ReturnedValid /\ Args.num_limits >= 1) =>
        LET n == Args.num_limits
            split == StatedSplits(Args.limit_style, n)
            v == Locals(Args)
        IN  /\ Len(result.limits) = n
            /\ \A i \in 1..n :
                  result.limits[i].margin = toFixed(RMul(v.margin, split[i]), 2)
            /\ (n >= 2 /\ Args.limit_style = "increasing") =>
                  \E i \in 1..n : LargestShare(i) /\ AtBestPrice(v, i)
            /\ (n >= 2 /\ Args.limit_style = "decreasing") =>
                  \E i \in 1..n : LargestShare(i) /\ AtWorstPrice(v, i)

C4_Witness ==
    /\ ReturnedValid
    /\ Args.num_limits = 3
    /\ Args.limit_style = "decreasing"
    /\ toLowerCase(Args.direction) = "long"
    /\ Units(result.limits[3].margin) > Units(result.limits[1].margin)

(* The split-weighted average and the simple mean of the call's unrounded  *)
(* limit prices.                                                           *)
WeightedAverage(v) ==
    LET n == Args.num_limits
        split == StatedSplits(Args.limit_style, n)
    IN  RDiv(RSum([i \in 1..n |-> RMul(LimitPrice(v, i), split[i])]), RSum(split))

SimpleMean(v) ==
    LET n == Args.num_limits
    IN  RDiv(RSum([i \in 1..n |-> LimitPrice(v, i)]), Num(n))

(* The offsets of the call's table row, first num_limits entries.          *)
TableOffsets ==
    {BASE_LIMITS[toLowerCase(Args.direction)][Args.limit_style][i] :
        i \in 1..Args.num_limits}

(* C5: with 1 to 3 limits each limit price is current_price x (1 + offset) *)
(* for the offsets of the table row, and entry_price is the split-weighted *)
(* average of the limit prices (both formatted to 6 decimals), which is    *)
(* not their simple mean when the splits are unequal.                      *)
C5_EntryIsWeightedAverage ==
    (ReturnedValid /\ Args.num_limits >= 1) =>
        LET n == Args.num_limits
            v == Locals(Args)
            sd == v.sortedDistances
            avg == WeightedAverage(v)
        IN  /\ Len(result.limits) = n
            /\ {sd[i] : i \in 1..n} = TableOffsets
            /\ \A i \in 1..n :
                  result.limits[i].price =
                      toFixed(RMul(Args.current_price, RAdd(One, sd[i])), 6)
            /\ v.avg_price = avg
            /\ result.entry_price = toFixed(avg, 6)
            /\ (n >= 2 /\ Args.limit_style # "equal") => v.avg_price # SimpleMean(v)

C5_Witness ==
    /\ ReturnedValid
    /\ Args.num_limits = 3
    /\ Args.limit_style = "increasing"
    /\ result.entry_price # toFixed(SimpleMean(Locals(Args)), 6)

(* C6: with num_limits = 0 the call returns exactly one limit, priced at   *)
(* current_price and carrying the full margin, and entry_price is          *)
(* current_price.                                                          *)
C6_NoLimitsIsOneMarketEntry ==
    (ReturnedValid /\ Args.num_limits = 0) =>
        /\ Len(result.limits) = 1
        /\ result.limits[1].price = toFixed(Args.current_price, 6)
        /\ Units(result.limits[1].margin) = Units(result.margin)
        /\ result.limits[1].margin = toFixed(Locals(Args).margin, 2)
        /\ result.entry_price = toFixed(Args.current_price, 6)

C6_Witness ==
    /\ ReturnedValid
    /\ Args.num_limits = 0
    /\ Args.limit_style = "decreasing"
    /\ Args.position_sizing = "kelly"
    /\ Units(result.limits[1].margin) > 0

(* clamp(x, lo, hi) of the claim.                                          *)
Clamp(x, lo, hi) == IF RLess(x, lo) THEN lo ELSE IF RLess(hi, x) THEN hi ELSE x

(* 0.5 x (b p - q) / b with p = win_rate, q = 1 - p, b = the win/loss      *)
(* ratio.                                                                  *)
HalfKelly(a) ==
    RMul(Rat(1, 2),
         RDiv(RSub(RMul(a.avg_win_loss_ratio, a.win_rate), RSub(One, a.win_rate)),
              a.avg_win_loss_ratio))

(* C7: with kelly sizing the margin is deposit x clamp(half-Kelly, 0,      *)
(* 0.25): never negative, never above 25% of the deposit; win rate 0.55    *)
(* with ratio 2.0 gives deposit x 0.1625.                                  *)
C7_KellyMarginClamped ==
    (ReturnedValid /\ Args.position_sizing = "kelly") =>
        LET m == RMul(Args.deposit, Clamp(HalfKelly(Args), Zero, Rat(25, 100)))
        IN  /\ Locals(Args).margin = m
            /\ result.margin = toFixed(m, 2)
            /\ RLeq(Zero, Locals(Args).margin)
            /\ RLeq(Locals(Args).margin, RMul(Args.deposit, Rat(25, 100)))
            /\ Units(result.margin) >= 0
            /\ (Args.win_rate = Rat(55, 100) /\ Args.avg_win_loss_ratio = Num(2)) =>
                  Locals(Args).margin = RMul(Args.deposit, Rat(1625, 10000))

C7_Witness ==
    /\ ReturnedValid
    /\ Args.position_sizing = "kelly"
    /\ RLess(HalfKelly(Args), Zero)
    /\ Units(result.margin) = 0

(* C8: with volatility sizing and atr_value > 0 the margin is              *)
(* max(deposit x deposit_risk / (1 + atr_value x atr_multiplier /          *)
(* current_price), deposit x 0.01); with atr_value not positive it is      *)
(* deposit x deposit_risk, as for fixed.                                   *)
C8_VolatilityMargin ==
    (ReturnedValid /\ Args.position_sizing = "volatility") =>
        LET base == RMul(Args.deposit, Args.deposit_risk)
            adjusted ==
                RDiv(base, RAdd(One, RDiv(RMul(Args.atr_value, Args.atr_multiplier),
                                          Args.current_price)))
            floor == RMul(Args.deposit, Rat(1, 100))
            m == IF RLess(Zero, Args.atr_value)
                 THEN (IF RLess(adjusted, floor) THEN floor ELSE adjusted)
                 ELSE base
        IN  /\ Locals(Args).margin = m
            /\ result.margin = toFixed(m, 2)

C8_Witness ==
    /\ ReturnedValid
    /\ Args.position_sizing = "volatility"
    /\ RLess(Zero, Args.atr_value)
    /\ Locals(Args).margin = RMul(Args.deposit, Rat(1, 100))

(* C9: fixed (and an omitted position_sizing) gives margin = deposit x     *)
(* deposit_risk, fixed_fractional deposit x fixed_fraction, risk_parity    *)
(* deposit x target_risk_pct, whatever the other methods' parameters are.  *)
C9_SelectedMethodDecidesMargin ==
    ReturnedValid =>
        LET m == Locals(Args).margin
            selected == IF "position_sizing" \in DOMAIN params
                        THEN params.position_sizing ELSE "fixed"
        IN  /\ selected = "fixed" =>
                  /\ m = RMul(Args.deposit, Args.deposit_risk)
                  /\ result.margin = toFixed(RMul(Args.deposit, Args.deposit_risk), 2)
            /\ selected = "fixed_fractional" =>
                  /\ m = RMul(Args.deposit, Args.fixed_fraction)
                  /\ result.margin = toFixed(RMul(Args.deposit, Args.fixed_fraction), 2)
            /\ selected = "risk_parity" =>
                  /\ m = RMul(Args.deposit, Args.target_risk_pct)
                  /\ result.margin = toFixed(RMul(Args.deposit, Args.target_risk_pct), 2)

C9_Witness ==
    /\ ReturnedValid
    /\ Args.position_sizing = "risk_parity"
    /\ "target_risk_pct" \in DOMAIN params
    /\ "fixed_fraction" \in DOMAIN params
    /\ Args.win_rate = One
    /\ result.margin = toFixed(RMul(Args.deposit, Rat(10, 100)), 2)

(* C10: a direction, limit_style or position_sizing outside its recognized *)
(* set makes the call fail; it never returns a result.                     *)
C10_UnrecognizedEnumFails ==
    (pc # "ready" /\ ~ValidEnums(Args)) => pc = "threw"

(* C11: a numeric input outside its domain makes the call fail before it   *)
(* produces a result; it never returns one.                                *)
C11_OutOfDomainFails ==
    (pc # "ready" /\ ValidEnums(Args) /\ ~ValidNumbers(Args)) => pc = "threw"

(* The take-profit entry the claims state for level i: tp is               *)
(* tp_percents[i], v is Locals(Args).                                      *)
TakePrice(v, tp) ==
    IF toLowerCase(Args.direction) = "long"
    THEN RMul(v.avg_price, RAdd(One, tp))
    ELSE RMul(v.avg_price, RSub(One, tp))

TakeUsd(v, i) == RMul(RMul(v.position, Args.tp_percents[i]), TP_SPLITS[i])

SumOfTakeUsd == RSum([i \in 1..Len(result.takes) |-> Num(Units(result.takes[i].usd))])[1]

C13_TakesAsStated ==
    ReturnedValid =>
        LET v == Locals(Args)
            stated == <<Rat(40, 100), Rat(35, 100), Rat(25, 100)>>
            total == RMul(v.position,
                          RSum([i \in 1..3 |-> RMul(Args.tp_percents[i], stated[i])]))
        IN  /\ TP_SPLITS = stated
            /\ RSum(TP_SPLITS) = One
            /\ \A i \in 1..3 :
                  /\ result.takes[i].price = toFixed(TakePrice(v, Args.tp_percents[i]), 6)
                  /\ result.takes[i].usd =
                        toFixed(RMul(RMul(v.position, Args.tp_percents[i]), stated[i]), 2)
                  /\ result.takes[i].move_pct =
                        toFixed(RMul(Args.tp_percents[i], Num(100)), 2)
            /\ RLeq(RMul(Num(2), RAbs(RSub(Rat(SumOfTakeUsd, 100), total))), Rat(3, 100))

C13_Witness ==
    /\ ReturnedValid
    /\ "tp_percents" \in DOMAIN params
    /\ Args.num_limits = 3
    /\ toLowerCase(Args.direction) = "short"
    /\ Units(result.takes[1].price) < Units(result.entry_price)
    /\ SumOfTakeUsd > 0

(* C14: risk_reward[i] is usd[i] / stop_usd (unrounded, then formatted)    *)
(* when stop_usd > 0 and 0 otherwise: when stop_usd is 0, by stop_risk = 0 *)
(* or by a zero margin, every take's risk_reward is 0 and the call         *)
(* returns.                                                                *)
C14_RiskRewardGuarded ==
    (pc # "ready" /\ ValidInput(Args)) =>
        LET v == Locals(Args) IN
        /\ pc = "returned"
        /\ \A i \in 1..3 :
              result.takes[i].risk_reward =
                  IF RLess(Zero, v.stop_usd)
                  THEN toFixed(RDiv(TakeUsd(v, i), v.stop_usd), 2)
                  ELSE toFixed(Zero, 2)
        /\ (Args.stop_risk = Zero \/ v.margin = Zero) =>
              /\ v.stop_usd = Zero
              /\ \A i \in 1..3 : Units(result.takes[i].risk_reward) = 0

C14_Witness ==
    /\ ReturnedValid
    /\ Args.stop_risk = Zero
    /\ Locals(Args).position # Zero
    /\ Units(result.takes[3].usd) > 0
    /\ Units(result.takes[3].risk_reward) = 0

(* C15: stop_price = entry_price x (1 - stop_risk) for long and            *)
(* entry_price x (1 + stop_risk) for short, from the weighted-average      *)
(* entry price and not from current_price, and stop_usd = position x       *)
(* stop_risk (each formatted from the unrounded values).                   *)
C15_StopFromEntryPrice ==
    ReturnedValid =>
        LET v == Locals(Args)
            entry == IF Args.num_limits = 0 THEN Args.current_price ELSE WeightedAverage(v)
            stop == IF toLowerCase(Args.direction) = "long"
                    THEN RMul(entry, RSub(One, Args.stop_risk))
                    ELSE RMul(entry, RAdd(One, Args.stop_risk))
        IN  /\ v.stop_price = stop
            /\ result.stop_price = toFixed(stop, 6)
            /\ v.stop_usd = RMul(RMul(v.margin, Args.leverage), Args.stop_risk)
            /\ result.stop_usd = toFixed(RMul(v.position, Args.stop_risk), 2)

C15_Witness ==
    /\ ReturnedValid
    /\ Args.num_limits = 3
    /\ "stop_risk" \in DOMAIN params
    /\ Args.stop_risk # Zero
    /\ LET fromCurrent ==
               IF toLowerCase(Args.direction) = "long"
               THEN RMul(Args.current_price, RSub(One, Args.stop_risk))
               ELSE RMul(Args.current_price, RAdd(One, Args.stop_risk))
       IN  result.stop_price # toFixed(fromCurrent, 6)

(* C16: liquidation_price = entry_price x (1 - 1/leverage) for long and    *)
(* entry_price x (1 + 1/leverage) for short, and liquidation_distance_pct  *)
(* is a positive magnitude, 100 / leverage, for both directions.           *)
C16_LiquidationAsStated ==
    ReturnedValid =>
        LET v == Locals(Args)
            inv == RDiv(One, Args.leverage)
            liq == IF toLowerCase(Args.direction) = "long"
                   THEN RMul(v.avg_price, RSub(One, inv))
                   ELSE RMul(v.avg_price, RAdd(One, inv))
        IN  /\ v.liquidation_price = liq
            /\ result.liquidation_price = toFixed(liq, 6)
            /\ v.liquidation_distance_pct = RDiv(Num(100), Args.leverage)
            /\ RLess(Zero, v.liquidation_distance_pct)
            /\ result.liquidation_distance_pct = toFixed(RDiv(Num(100), Args.leverage), 2)
            /\ Units(result.liquidation_distance_pct) >= 0

C16_Witness ==
    /\ ReturnedValid
    /\ toLowerCase(Args.direction) = "long"
    /\ Args.num_limits = 3
    /\ Units(result.liquidation_price) < Units(result.entry_price)
    /\ Units(result.liquidation_distance_pct) = 500

(* The percentage distance from the stop price to the liquidation price,   *)
(* relative to the entry price, counted positive while the stop is on the  *)
(* entry's side of the liquidation price.                                  *)
StopToLiquidationPct(v) ==
    RMul(RDiv(IF toLowerCase(Args.direction) = "long"
              THEN RSub(v.stop_price, v.liquidation_price)
              ELSE RSub(v.liquidation_price, v.stop_price),
              v.avg_price),
         Num(100))

(* C17: safety_margin_pct is the percentage distance from the stop price   *)
(* to the liquidation price; for both directions it is positive exactly    *)
(* when stop_risk < 1/leverage, and zero or negative when the stop is at   *)
(* or beyond liquidation.                                                  *)
C17_SafetyMarginSign ==
    ReturnedValid =>
        LET v == Locals(Args)
            inside == RLess(Args.stop_risk, RDiv(One, Args.leverage))
        IN  /\ v.safety_margin_pct = StopToLiquidationPct(v)
            /\ result.safety_margin_pct = toFixed(StopToLiquidationPct(v), 2)
            /\ RLess(Zero, v.safety_margin_pct) <=> inside
            /\ inside => Units(result.safety_margin_pct) >= 0
            /\ ~inside => Units(result.safety_margin_pct) <= 0

C17_Witness ==
    /\ ReturnedValid
    /\ toLowerCase(Args.direction) = "short"
    /\ RLess(RDiv(One, Args.leverage), Args.stop_risk)
    /\ Units(result.safety_margin_pct) < 0

(* Two completed calls of the history whose arguments are valid and differ *)
(* only in leverage, the i-th with the smaller one.                        *)
DifferOnlyInLeverage(i, j) ==
    /\ calls[i].params # calls[j].params
    /\ [calls[i].params EXCEPT !.leverage = One] = [calls[j].params EXCEPT !.leverage = One]
    /\ RLess(calls[i].params.leverage, calls[j].params.leverage)
    /\ calls[i].outcome = "returned"
    /\ calls[j].outcome = "returned"
    /\ ValidInput(Destructure(calls[i].params))
    /\ ValidInput(Destructure(calls[j].params))

LocalsOfCall(i) == Locals(Destructure(calls[i].params))

(* The distance of the returned liquidation price from the returned entry  *)
(* price, in units of the sixth decimal.                                   *)
ReturnedLiquidationGap(i) ==
    Abs(Units(calls[i].result.liquidation_price) - Units(calls[i].result.entry_price))

(* The claim's strict comparison of the calls i (smaller leverage) and j.  *)
StrictlyLargerPosition(i, j) ==
    /\ RLess(LocalsOfCall(i).position, LocalsOfCall(j).position)
    /\ Units(calls[i].result.position) < Units(calls[j].result.position)
    /\ ReturnedLiquidationGap(j) < ReturnedLiquidationGap(i)

(* C18 as stated: of two valid inputs that differ only in leverage, under  *)
(* every sizing method, the one with the larger leverage has a strictly    *)
(* larger position and a liquidation price strictly closer to the entry    *)
(* price.  (The latest call is compared with each earlier one.)            *)
C18_StrictInLeverage ==
    \A i \in 1..Len(calls) :
        /\ DifferOnlyInLeverage(i, Len(calls)) => StrictlyLargerPosition(i, Len(calls))
        /\ DifferOnlyInLeverage(Len(calls), i) => StrictlyLargerPosition(Len(calls), i)

(* The amended comparison of the calls i (smaller leverage) and j.         *)
MonotoneInLeverage(i, j) ==
    LET v == LocalsOfCall(i)
        w == LocalsOfCall(j)
    IN  /\ v.margin = w.margin
        /\ v.avg_price = w.avg_price
        /\ RLess(Zero, v.margin) => RLess(v.position, w.position)
        /\ v.margin = Zero => (v.position = Zero /\ w.position = Zero)
        /\ RLess(RAbs(RSub(w.liquidation_price, w.avg_price)),
                 RAbs(RSub(v.liquidation_price, v.avg_price)))
        /\ Units(calls[i].result.position) <= Units(calls[j].result.position)
        /\ ReturnedLiquidationGap(j) <= ReturnedLiquidationGap(i)

(* C18, amended: the liquidation price is strictly closer to the entry     *)
(* price for the larger leverage, and the position strictly larger         *)
(* whenever the margin is positive (with a zero margin both positions are  *)
(* 0); strictly before formatting, and never the other way round in the    *)
(* returned 2- and 6-decimal fields.                                       *)
C18_MonotoneInLeverage ==
    \A i \in 1..Len(calls) :
        /\ DifferOnlyInLeverage(i, Len(calls)) => MonotoneInLeverage(i, Len(calls))
        /\ DifferOnlyInLeverage(Len(calls), i) => MonotoneInLeverage(Len(calls), i)

C18_Witness ==
    \E i, j \in 1..Len(calls) :
        /\ DifferOnlyInLeverage(i, j)
        /\ Destructure(calls[i].params).position_sizing = "kelly"
        /\ Units(calls[i].result.position) = 0
        /\ Units(calls[j].result.position) = 0
        /\ ReturnedLiquidationGap(j) < ReturnedLiquidationGap(i)

BadgeClass(r) ==
    CASE safety_badge(r) = "Low" -> "severe"
      [] safety_badge(r) = "Moderate" -> "caution"
      [] safety_badge(r) = "Safe" -> "safe"

BannerClass(r) ==
    CASE safety_banner(r) = "Warning" -> "severe"
      [] safety_banner(r) = "Caution" -> "caution"
      [] safety_banner(r) = "none" -> "safe"

(* C20: the page classifies every result it renders by safety_margin_pct   *)
(* alone as severe (< 2), caution (>= 2 and < 5) or safe (>= 5); badge and *)
(* banner use the same class; a result is shown as safe only when its      *)
(* safety margin is a number that is at least 5.                           *)
C20_ClassifiedBySafetyMargin ==
    ResultsRendered =>
        LET x == parseFloat(page.result.safety_margin_pct)
        IN  /\ BadgeClass(page.result) = BannerClass(page.result)
            /\ BadgeClass(page.result) = "severe" <=> RLess(x, Num(2))
            /\ BadgeClass(page.result) = "caution" <=>
                  (RLeq(Num(2), x) /\ RLess(x, Num(5)))
            /\ BadgeClass(page.result) = "safe" <=> (IsFinite(x) /\ RLeq(Num(5), x))


-----------------------------------------------------------------------------
(* The call of the aggressive/equal/moderate revision and what it          *)
(* computed before formatting.                                             *)
Args_part001 == Destructure_part001(params)

ValidInput_part001(a) ==
    /\ toLowerCase(a.direction) \in RecognizedDirections
    /\ a.limit_style \in {"aggressive", "equal", "moderate"}
    /\ RLess(Zero, a.deposit)
    /\ RLess(Zero, a.current_price)
    /\ RLess(Zero, a.leverage)
    /\ a.num_limits \in 0..3

LimitPrice_part001(i) ==
    limit_price(Args_part001, Locals_part001(Args_part001).sortedDistances[i])

(* Limit i carries the largest share of the margin.                        *)
LargestShare_part001(i) ==
    LET sp == Locals_part001(Args_part001).splits
    IN  \A j \in 1..Args_part001.num_limits : j # i => RLess(sp[j], sp[i])

(* C21: in the aggressive/equal/moderate revision the first limit is the   *)
(* best price for the direction (lowest for long, highest for short), so   *)
(* aggressive has its 70% / 60% share on the best price and moderate its   *)
(* largest share on the worst price.                                       *)
C21_FirstLimitIsBestPrice ==
    (Returned /\ ValidInput_part001(Args_part001) /\ Args_part001.num_limits >= 2) =>
        LET n == Args_part001.num_limits
            sp == Locals_part001(Args_part001).splits
        IN  /\ Len(result.limits) = n
            /\ \A i \in 2..n :
                  /\ StrictlyWorse(LimitPrice_part001(i), LimitPrice_part001(1))
                  /\ StrictlyWorse(Num(Units(result.limits[i].price)),
                                   Num(Units(result.limits[1].price)))
            /\ Args_part001.limit_style = "aggressive" =>
                  /\ LargestShare_part001(1)
                  /\ sp[1] = IF n = 2 THEN Rat(7, 10) ELSE Rat(6, 10)
                  /\ result.limits[1].margin
                        = toFixed(RMul(margin_part001(Args_part001), sp[1]), 2)
            /\ Args_part001.limit_style = "moderate" =>
                  /\ LargestShare_part001(n)
                  /\ \A i \in 1..(n - 1) :
                        StrictlyWorse(LimitPrice_part001(n), LimitPrice_part001(i))

(* What the revision does for a short, and for a long the other way round: *)
(* the first limit of a long is its highest price.                         *)
C21_DescendingForBothDirections ==
    (Returned /\ ValidInput_part001(Args_part001) /\ Args_part001.num_limits >= 2) =>
        \A i \in 2..Args_part001.num_limits :
            RLess(LimitPrice_part001(i), LimitPrice_part001(i - 1))


-----------------------------------------------------------------------------
(* The percent fields of the form are between 0 and 100.                   *)
IsPercent(x) == RLeq(Zero, x) /\ RLeq(x, Num(100))

PercentFieldsInRange(f) ==
    /\ IsPercent(depositRisk(f))
    /\ IsPercent(f.winRate)
    /\ IsPercent(f.fixedFraction)
    /\ IsPercent(f.targetRiskPct)

(* The call the page made last returned: params is its argument object.    *)
PageCallReturned == pc = "returned"

(* C22: handleCalculate passes each sizing fraction (deposit_risk,         *)
(* win_rate, fixed_fraction, target_risk_pct) as a fraction in [0,1], and  *)
(* under every selectable sizing method the margin is at most the deposit. *)
C22_FractionsPassedMarginWithinDeposit ==
    (PageCallReturned /\ PercentFieldsInRange(page)) =>
        /\ IsFraction(Args.deposit_risk)
        /\ IsFraction(Args.win_rate)
        /\ IsFraction(Args.fixed_fraction)
        /\ IsFraction(Args.target_risk_pct)
        /\ RLeq(Locals(Args).margin, Args.deposit)
        /\ Units(result.margin) <= Units(toFixed(Args.deposit, 2))

(* What the page does: the three fields it divides by 100 arrive as        *)
(* fractions, target_risk_pct arrives as the percent number of the form,   *)
(* and the margin is within the deposit under every method but             *)
(* risk_parity.                                                            *)
C22_AllButTargetRisk ==
    (PageCallReturned /\ PercentFieldsInRange(page)) =>
        /\ IsFraction(Args.deposit_risk)
        /\ IsFraction(Args.win_rate)
        /\ IsFraction(Args.fixed_fraction)
        /\ Args.position_sizing = "risk_parity" =>
              /\ params.target_risk_pct \in FormTargetRisks
              /\ Locals(Args).margin = RMul(Args.deposit, params.target_risk_pct)
        /\ Args.position_sizing # "risk_parity" =>
              RLeq(Locals(Args).margin, Args.deposit)


-----------------------------------------------------------------------------
(* The page is stuck: isLoading is true, so the button is disabled and the *)
(* loader is shown, and no handleCalculate is waiting that would reset it. *)
(* The 300 ms timer of a waiting handleCalculate always fires, so a click  *)
(* ends if and only if the page does not get stuck.                        *)
Stuck == page.isLoading /\ page.pending = 0

(* C23: every click on Calculate eventually ends with isLoading = false    *)
(* and showOutput = true: at most one calculation is pending, the results  *)
(* panel is never rendered while isLoading, and no outcome of the call, a  *)
(* thrown error included, leaves isLoading stuck at true.                  *)
C23_EveryClickEnds ==
    /\ page.pending <= 1
    /\ page.isLoading => ~ResultsRendered
    /\ ~Stuck
    /\ (~page.isLoading /\ pc # "idle") => page.showOutput

(* What the page guarantees: the two safety parts, and a click that ends   *)
(* ends as stated; the page is stuck exactly after a call that threw.      *)
C23_StuckOnlyAfterThrow ==
    /\ page.pending <= 1
    /\ page.isLoading => ~ResultsRendered
    /\ Stuck => pc = "threw"
    /\ (~page.isLoading /\ pc # "idle") => page.showOutput

(* Once stuck the page stays stuck.                                        *)
C23_StuckForGood == [][Stuck => Stuck']_vars


-----------------------------------------------------------------------------
(* C24: the result shown after a click on Calculate is the result of       *)
(* calculateTrade3TP for the form values as they were at the click, even   *)
(* if a field is edited during the 300 ms delay.                           *)
C24_ResultOfFormAtClick ==
    ResultsRendered =>
        /\ page.clicked # null
        /\ ~Throws(Destructure(page.clicked))
        /\ page.result = calculateTrade3TP(page.clicked)

(* What the page does: the result shown is that of the form values as they *)
(* are when the delay ends.                                                *)
C24_ResultOfFormAtResume ==
    [][(page.pending = 1 /\ page'.pending = 0 /\ ~page'.isLoading) =>
          /\ params' = PageParams(page)
          /\ page'.result = calculateTrade3TP(PageParams(page))
          /\ ResultsRendered']_vars


-----------------------------------------------------------------------------
(* C25: after a successful copyToClipboard(v) copiedValue stays v until    *)
(* the 2000 ms timer started by that same call fires, unless a later copy  *)
(* replaces it; the timer of an earlier copy never clears the indicator of *)
(* a later copy.                                                           *)
C25_IndicatorKeptUntilOwnTimer ==
    [][page.shownBy # 0 =>
          \/ page'.shownBy = page.shownBy /\ page'.copiedValue = page.copiedValue
          \/ page'.shownBy > page.shownBy /\ page'.copiedValue # null_string
          \/ /\ page'.copiedValue = null_string
             /\ page.timers # <<>>
             /\ Head(page.timers) = page.shownBy]_vars

(* What the page does: copiedValue changes only when a write is fulfilled  *)
(* or a timer fires, and every timer that fires clears it, whichever copy  *)
(* set it.                                                                 *)
C25_AnyTimerClears ==
    [][/\ page'.copiedValue # page.copiedValue =>
              \/ page'.successes = page.successes + 1
              \/ page'.timers = Tail(page.timers)
       /\ (page.timers # <<>> /\ page'.timers = Tail(page.timers)) =>
              page'.copiedValue = null_string]_vars


-----------------------------------------------------------------------------
(* Every call the page makes with fixed sizing: position is the deposit,   *)
(* stop_usd deposit x 0.05 and margin deposit / leverage.                  *)
ReturnedPositionIsDeposit ==
    (PageCallReturned /\ Args.position_sizing = "fixed") =>
        /\ Args.deposit_risk = RDiv(One, Args.leverage)
        /\ Args.stop_risk = Rat(5, 100)
        /\ Locals(Args).position = Args.deposit
        /\ result.position = toFixed(Args.deposit, 2)
        /\ result.stop_usd = toFixed(RMul(Args.deposit, Rat(5, 100)), 2)
        /\ result.margin = toFixed(RDiv(Args.deposit, Args.leverage), 2)

(* The same for each of the ten leverage options, from the form as the     *)
(* page opens.                                                             *)
EveryLeverageOption ==
    (pc = "idle" /\ page = InitialPage) =>
        \A l \in leverageOptions :
            LET r == calculateTrade3TP(PageParams([page EXCEPT !.leverage = Num(l)]))
            IN  /\ r.position = toFixed(page.deposit, 2)
                /\ r.stop_usd = toFixed(RMul(page.deposit, Rat(5, 100)), 2)
                /\ r.margin = toFixed(RDiv(page.deposit, Num(l)), 2)

(* C26: through the page with the default fixed sizing deposit_risk is     *)
(* 1/leverage, so for every leverage option the position equals the        *)
(* deposit and stop_usd is deposit x 0.05, both independent of the         *)
(* leverage, which changes the margin.                                     *)
C26_PositionIsDeposit == ReturnedPositionIsDeposit /\ EveryLeverageOption

C26_Witness ==
    /\ PageCallReturned
    /\ Args.position_sizing = "fixed"
    /\ Args.leverage = Num(20)
    /\ page.result = result
    /\ Units(result.position) = 100 * DefaultDeposit
    /\ Units(result.margin) # Units(toFixed(RDiv(Args.deposit, Num(7)), 2))

=============================================================================
